---- MODULE Spec2Model ----
(***************************************************************************)
(* A model of lsp-text: the ChunkWalker of src/rope.rs (the callback that  *)
(* feeds a parser the bytes of a rope, chunk by chunk) and the position    *)
(* conversions of RopeExt (byte offset <-> protocol position <-> parser    *)
(* point, build_edit, apply_edit).                                         *)
(*                                                                         *)
(* The rope itself is the ropey crate.  Its documented behaviour is part   *)
(* of the model: index conversions panic when the index is out of bounds,  *)
(* and a Chunks iterator is a cursor that sits between two chunks, so that *)
(* next() yields the chunk after the cursor and prev() the chunk before    *)
(* it (next() followed by prev() yields the same chunk twice).             *)
(***************************************************************************)
EXTENDS Integers, Sequences, FiniteSets, TLC

VARIABLES
    chunks,           \* the rope's text as its sequence of chunks (byte sequences)
    overflow_checks,  \* build profile: TRUE when arithmetic overflow panics (debug)
    wasm32,           \* TRUE when the callback takes the end bound (target_arch = "wasm32")
    cursor,           \* ChunkWalker.cursor
    cursor_chunk,     \* ChunkWalker.cursor_chunk
    iter,             \* ChunkWalker.chunks: how many chunks lie before the iterator
    pc,               \* position inside the callback: idle, back, prev, fwd, next,
                      \* serve, panic_overflow (the arithmetic of prev_chunk and
                      \* next_chunk), panic_slice (the slice expression)
    start_index,      \* the callback's start_index argument
    end_index,        \* the callback's end_index argument: <<>> is None, <<e>> is Some(e)
    bytes_out,        \* the Bytes the callback returned last
    steps,            \* prev_str / next_str calls made by the call in progress
    served,           \* reads served since the walker was made
    advanced,         \* the call in progress has moved the walker forward
    backward,         \* the call in progress asks for an offset below the one the
                      \* read before it moved the walker forward to
    seq_next,         \* sequential reading from 0: the offset the next read must ask for
    acc,              \* sequential reading from 0: the bytes read so far
    text,             \* the rope's text as its sequence of characters
    u32_max,          \* the largest value a u32 holds
    last              \* the RopeExt call whose result the caller holds: its name,
                      \* arguments and outcome

walker_vars == <<cursor, cursor_chunk, iter, pc, start_index, end_index, bytes_out,
                 steps, served, advanced, backward, seq_next, acc>>
rope_vars == <<chunks, overflow_checks, wasm32>>
pos_vars == <<text, u32_max, last>>
vars == <<rope_vars, walker_vars, pos_vars>>

(***************************************************************************)
(* Bounds of the model.                                                    *)
(***************************************************************************)
MaxChunks == 3
MaxChunkLen == 2
MaxSteps == 12

(***************************************************************************)
(* usize arithmetic.  A usize value v is held as an integer standing for   *)
(* v modulo 2^64: a negative integer n stands for 2^64 + n, the value a    *)
(* wrapping subtraction leaves.  Comparisons are the unsigned ones.        *)
(***************************************************************************)
ULt(a, b) == IF (a >= 0) = (b >= 0) THEN a < b ELSE b < 0
SubOverflows(a, b) == ULt(a, b)
AddOverflows(a, b) == a < 0 /\ a + b >= 0

Min(a, b) == IF a <= b THEN a ELSE b

(***************************************************************************)
(* The rope as the walker sees it.                                         *)
(***************************************************************************)
RECURSIVE SumLen(_)
SumLen(cs) == IF cs = <<>> THEN 0 ELSE Len(Head(cs)) + SumLen(Tail(cs))

len_bytes == SumLen(chunks)

ChunkStart(cs, i) == SumLen(SubSeq(cs, 1, i - 1))

RECURSIVE Flatten(_)
Flatten(cs) == IF cs = <<>> THEN <<>> ELSE Head(cs) \o Flatten(Tail(cs))

RECURSIVE Sum(_)
Sum(ns) == IF ns = <<>> THEN 0 ELSE Head(ns) + Sum(Tail(ns))

\* Chunks of the given lengths over a text whose byte at offset i is the value i,
\* so that a returned slice shows which bytes of the rope it holds.
Segment(lens) ==
    [i \in 1..Len(lens) |->
        [j \in 1..lens[i] |-> Sum(SubSeq(lens, 1, i - 1)) + j - 1]]

\* Chunks::next: the chunk after the iterator, None at the end.
next_str(cs, it) == IF it < Len(cs) THEN cs[it + 1] ELSE <<>>
next_iter(cs, it) == IF it < Len(cs) THEN it + 1 ELSE it

\* Chunks::prev: the chunk before the iterator, None at the start.
prev_str(cs, it) == IF it > 0 THEN cs[it] ELSE <<>>
prev_iter(cs, it) == IF it > 0 THEN it - 1 ELSE it

\* Rope::chunks_at_byte: the iterator placed before the chunk that holds the byte,
\* with the byte offset at which that chunk starts; the iterator at the end of the
\* rope for the offset one past the end.  Where empty chunks come right before the
\* chunk that holds the byte, the iterator may be placed before any of them.
chunks_at_byte(cs, b) ==
    IF b >= SumLen(cs) THEN {[iter |-> Len(cs), chunk_byte_idx |-> SumLen(cs)]}
    ELSE {[iter |-> i - 1, chunk_byte_idx |-> ChunkStart(cs, i)] :
            i \in {k \in 1..Len(cs) :
                     /\ ChunkStart(cs, k) <= b
                     /\ \E j \in k..Len(cs) :
                           /\ b < ChunkStart(cs, j) + Len(cs[j])
                           /\ ChunkStart(cs, j) = ChunkStart(cs, k)}}

\* RopeExt::chunk_walker: the walker made from what chunks_at_byte returned.
chunk_walker(cs, at) ==
    [cursor |-> at.chunk_byte_idx,
     cursor_chunk |-> next_str(cs, at.iter),
     chunks |-> next_iter(cs, at.iter)]

(***************************************************************************)
(* The states a rope and its walker start in.  lens are the chunk lengths  *)
(* the rope may have, w says which callback the build has.                 *)
(***************************************************************************)
LenSeqs(lens) == UNION {[1..n -> lens] : n \in 0..MaxChunks}

NoPosition ==
    /\ text = <<>>
    /\ u32_max = 0
    /\ last = [op |-> "none"]

InitWalker(lens, w) ==
    /\ \E ls \in LenSeqs(lens) : chunks = Segment(ls)
    /\ overflow_checks \in BOOLEAN
    /\ wasm32 = w
    /\ \E byte_idx \in 0..len_bytes : \E at \in chunks_at_byte(chunks, byte_idx) :
          LET wk == chunk_walker(chunks, at)
          IN  /\ cursor = wk.cursor
              /\ cursor_chunk = wk.cursor_chunk
              /\ iter = wk.chunks
              /\ seq_next = IF byte_idx = 0 THEN 0 ELSE -1
    /\ pc = "idle"
    /\ start_index = 0
    /\ end_index = <<>>
    /\ bytes_out = <<>>
    /\ steps = 0
    /\ served = FALSE
    /\ advanced = FALSE
    /\ backward = FALSE
    /\ acc = <<>>
    /\ NoPosition

(***************************************************************************)
(* The callback of callback_adapter, step by step.                         *)
(***************************************************************************)
Tick == Min(steps + 1, MaxSteps)

\* The parser calls the callback with start_index t and end_index e.
Call(t, e) ==
    /\ pc = "idle"
    /\ start_index' = t
    /\ end_index' = e
    /\ pc' = "back"
    /\ steps' = 0
    /\ advanced' = FALSE
    /\ backward' = (served /\ advanced /\ t < start_index)
    /\ seq_next' = IF seq_next = t THEN seq_next ELSE -1
    /\ UNCHANGED <<cursor, cursor_chunk, iter, bytes_out, served, acc>>
    /\ UNCHANGED <<rope_vars, pos_vars>>

\* while start_index < self.cursor && 0 < self.cursor { self.prev_chunk() }:
\* the loop test and the first two statements of prev_chunk.
Retreat ==
    /\ pc = "back"
    /\ IF ULt(start_index, cursor) /\ ULt(0, cursor)
       THEN IF overflow_checks /\ SubOverflows(cursor, Len(cursor_chunk))
            THEN /\ pc' = "panic_overflow"
                 /\ UNCHANGED <<cursor, cursor_chunk, iter, steps>>
            ELSE /\ cursor' = cursor - Len(cursor_chunk)
                 /\ cursor_chunk' = prev_str(chunks, iter)
                 /\ iter' = prev_iter(chunks, iter)
                 /\ steps' = Tick
                 /\ pc' = "prev"
       ELSE /\ pc' = "fwd"
            /\ UNCHANGED <<cursor, cursor_chunk, iter, steps>>
    /\ UNCHANGED <<start_index, end_index, bytes_out, served, advanced, backward, seq_next, acc>>
    /\ UNCHANGED <<rope_vars, pos_vars>>

\* prev_chunk: while 0 < self.cursor && self.cursor_chunk.is_empty() { prev_str }
RetreatSkip ==
    /\ pc = "prev"
    /\ IF ULt(0, cursor) /\ cursor_chunk = <<>>
       THEN /\ cursor_chunk' = prev_str(chunks, iter)
            /\ iter' = prev_iter(chunks, iter)
            /\ steps' = Tick
            /\ pc' = "prev"
       ELSE /\ pc' = "back"
            /\ UNCHANGED <<cursor_chunk, iter, steps>>
    /\ UNCHANGED <<cursor, start_index, end_index, bytes_out, served, advanced, backward, seq_next, acc>>
    /\ UNCHANGED <<rope_vars, pos_vars>>

\* while start_index >= self.cursor + self.cursor_chunk.len()
\*       && start_index < self.rope.len_bytes() { self.next_chunk() }:
\* the loop test and the first two statements of next_chunk.
Advance ==
    /\ pc = "fwd"
    /\ IF overflow_checks /\ AddOverflows(cursor, Len(cursor_chunk))
       THEN /\ pc' = "panic_overflow"
            /\ UNCHANGED <<cursor, cursor_chunk, iter, steps, advanced>>
       ELSE IF ~ULt(start_index, cursor + Len(cursor_chunk)) /\ ULt(start_index, len_bytes)
            THEN /\ cursor' = cursor + Len(cursor_chunk)
                 /\ cursor_chunk' = next_str(chunks, iter)
                 /\ iter' = next_iter(chunks, iter)
                 /\ steps' = Tick
                 /\ advanced' = TRUE
                 /\ pc' = "next"
            ELSE /\ pc' = "serve"
                 /\ UNCHANGED <<cursor, cursor_chunk, iter, steps, advanced>>
    /\ UNCHANGED <<start_index, end_index, bytes_out, served, backward, seq_next, acc>>
    /\ UNCHANGED <<rope_vars, pos_vars>>

\* next_chunk: while self.cursor < self.rope.len_bytes() && self.cursor_chunk.is_empty()
AdvanceSkip ==
    /\ pc = "next"
    /\ IF ULt(cursor, len_bytes) /\ cursor_chunk = <<>>
       THEN /\ cursor_chunk' = next_str(chunks, iter)
            /\ iter' = next_iter(chunks, iter)
            /\ steps' = Tick
            /\ pc' = "next"
       ELSE /\ pc' = "fwd"
            /\ UNCHANGED <<cursor_chunk, iter, steps>>
    /\ UNCHANGED <<cursor, start_index, end_index, bytes_out, served, advanced, backward, seq_next, acc>>
    /\ UNCHANGED <<rope_vars, pos_vars>>

\* The slice bounds of &bytes[start_index - self.cursor .. end_index]: lo and hi,
\* local to cursor_chunk.  Without an end bound hi is bytes.len().
SliceLo_NoCursor == start_index
SliceLo == start_index - cursor
SliceHi == IF end_index = <<>> THEN Len(cursor_chunk) ELSE end_index[1]

\* The slice expression panics: the subtraction overflows (with overflow checks),
\* or it wraps to an index near 2^64, or the range is not one of the chunk.
SlicePanics ==
    \/ overflow_checks /\ SubOverflows(start_index, cursor)
    \/ SliceLo < 0
    \/ SliceLo > SliceHi
    \/ SliceHi > Len(cursor_chunk)

\* let bytes = &bytes[start_index - self.cursor .. end_index]; Bytes::from_static(bytes)
Serve ==
    /\ pc = "serve"
    /\ IF SlicePanics
       THEN /\ pc' = "panic_slice"
            /\ UNCHANGED <<bytes_out, served, seq_next, acc>>
       ELSE LET bytes == SubSeq(cursor_chunk, SliceLo + 1, SliceHi)
            IN  /\ bytes_out' = bytes
                /\ served' = TRUE
                /\ pc' = "idle"
                /\ seq_next' = IF seq_next < 0 THEN seq_next ELSE start_index + Len(bytes)
                /\ acc' = IF seq_next < 0 THEN acc ELSE acc \o bytes
    /\ UNCHANGED <<cursor, cursor_chunk, iter, start_index, end_index, steps, advanced, backward>>
    /\ UNCHANGED <<rope_vars, pos_vars>>

Offsets == 0..len_bytes
EndBounds(t) == {<<>>} \cup {<<e>> : e \in t..len_bytes}

\* Reads of the callback that takes no end bound.
Read == \E t \in Offsets : Call(t, <<>>)

\* Reads of the wasm32 callback: the end bound is None or an offset not below t.
ReadBounded == \E t \in Offsets : \E e \in EndBounds(t) : Call(t, e)

Init == InitWalker(1..MaxChunkLen, FALSE)
Next == Read \/ Retreat \/ RetreatSkip \/ Advance \/ AdvanceSkip \/ Serve
Spec == Init /\ [][Next]_vars

InitEmptyChunks == InitWalker(0..MaxChunkLen, FALSE)
SpecEmptyChunks == InitEmptyChunks /\ [][Next]_vars

InitWasm == InitWalker(1..MaxChunkLen, TRUE)
NextWasm == ReadBounded \/ Retreat \/ RetreatSkip \/ Advance \/ AdvanceSkip \/ Serve
SpecWasm == InitWasm /\ [][NextWasm]_vars

(***************************************************************************)
(* The rope as the position conversions see it: a sequence of characters.  *)
(* "a" is an ASCII letter, "LF" the line feed, "e_acute" a character of    *)
(* two UTF-8 bytes and one UTF-16 code unit, "emoji" a character outside   *)
(* the Basic Multilingual Plane: four UTF-8 bytes, two UTF-16 code units.  *)
(***************************************************************************)
Alphabet == {"a", "LF", "e_acute", "emoji"}

len_utf8(c) == CASE c = "a" -> 1 [] c = "LF" -> 1 [] c = "e_acute" -> 2 [] c = "emoji" -> 4
len_utf16(c) == CASE c = "a" -> 1 [] c = "LF" -> 1 [] c = "e_acute" -> 1 [] c = "emoji" -> 2
is_line_break(c) == c = "LF"

RECURSIVE Utf8Len(_)
Utf8Len(r) == IF r = <<>> THEN 0 ELSE len_utf8(Head(r)) + Utf8Len(Tail(r))
RECURSIVE Utf16Len(_)
Utf16Len(r) == IF r = <<>> THEN 0 ELSE len_utf16(Head(r)) + Utf16Len(Tail(r))
RECURSIVE LineBreaks(_)
LineBreaks(r) == IF r = <<>> THEN 0
                 ELSE (IF is_line_break(Head(r)) THEN 1 ELSE 0) + LineBreaks(Tail(r))

Prefix(r, n) == SubSeq(r, 1, n)

\* Rope::len_chars, len_bytes, len_utf16_cu, len_lines
len_chars(r) == Len(r)
rope_len_bytes(r) == Utf8Len(r)
len_utf16_cu(r) == Utf16Len(r)
len_lines(r) == LineBreaks(r) + 1

\* The index conversions of Rope.  Each panics when its index is out of bounds:
\* the XInBounds predicate says when it does not.
char_to_byte_in_bounds(r, c) == c <= len_chars(r)
char_to_byte(r, c) == Utf8Len(Prefix(r, c))

byte_to_char_in_bounds(r, b) == b <= rope_len_bytes(r)
\* a byte inside a character belongs to that character
byte_to_char(r, b) ==
    CHOOSE c \in 0..Len(r) :
        /\ char_to_byte(r, c) <= b
        /\ \A d \in (c + 1)..Len(r) : char_to_byte(r, d) > b

char_to_utf16_cu_in_bounds(r, c) == c <= len_chars(r)
char_to_utf16_cu(r, c) == Utf16Len(Prefix(r, c))

utf16_cu_to_char_in_bounds(r, u) == u <= len_utf16_cu(r)
\* a code unit inside a surrogate pair belongs to the pair's character
utf16_cu_to_char(r, u) ==
    CHOOSE c \in 0..Len(r) :
        /\ char_to_utf16_cu(r, c) <= u
        /\ \A d \in (c + 1)..Len(r) : char_to_utf16_cu(r, d) > u

byte_to_line_in_bounds(r, b) == b <= rope_len_bytes(r)
\* the line breaks before the byte; the last line for the offset one past the end
byte_to_line(r, b) == LineBreaks(Prefix(r, byte_to_char(r, b)))

line_to_char_in_bounds(r, l) == l <= len_lines(r)
\* the character after the l-th line break; len_chars for the line one past the end
line_to_char(r, l) ==
    IF l = 0 THEN 0
    ELSE IF l >= len_lines(r) THEN len_chars(r)
    ELSE CHOOSE c \in 1..Len(r) : is_line_break(r[c]) /\ LineBreaks(Prefix(r, c)) = l

line_to_byte_in_bounds(r, l) == l <= len_lines(r)
line_to_byte(r, l) == char_to_byte(r, line_to_char(r, l))

(***************************************************************************)
(* Outcomes of the RopeExt operations: a value, the TryFromIntError that   *)
(* `?` returns, or a panic.                                                *)
(***************************************************************************)
Ok(v) == [tag |-> "Ok", val |-> v]
Err == [tag |-> "Err"]
Panic == [tag |-> "Panic"]

\* u32::try_from(v) succeeds; v as u32
fits_u32(v) == v <= u32_max
as_u32(v) == IF v <= u32_max THEN v ELSE v % (u32_max + 1)

Position(line, character) == [line |-> line, character |-> character]
Point(row, column) == [row |-> row, column |-> column]

\* RopeExt::byte_to_lsp_position
byte_to_lsp_position(r, byte_idx) ==
    IF ~byte_to_line_in_bounds(r, byte_idx) THEN Panic
    ELSE LET line_idx == byte_to_line(r, byte_idx)
             line_utf16_cu_idx == char_to_utf16_cu(r, line_to_char(r, line_idx))
             character_utf16_cu_idx == char_to_utf16_cu(r, byte_to_char(r, byte_idx))
             character == character_utf16_cu_idx - line_utf16_cu_idx
         IN  Ok(Position(as_u32(line_idx), as_u32(character)))

\* RopeExt::byte_to_tree_sitter_point
byte_to_tree_sitter_point(r, byte_idx) ==
    IF ~byte_to_line_in_bounds(r, byte_idx) THEN Panic
    ELSE LET line_idx == byte_to_line(r, byte_idx)
             line_byte_idx == line_to_byte(r, line_idx)
         IN  IF ~fits_u32(line_idx) THEN Panic
             ELSE IF ~fits_u32(byte_idx - line_byte_idx) THEN Err
             ELSE Ok(Point(line_idx, byte_idx - line_byte_idx))

\* RopeExt::lsp_position_to_core
lsp_position_to_core(r, position) ==
    LET row_idx == position.line
        col_code_idx == position.character
    IN  IF ~line_to_char_in_bounds(r, row_idx) THEN Panic
        ELSE IF ~utf16_cu_to_char_in_bounds(r, col_code_idx) THEN Panic
        ELSE LET row_char_idx == line_to_char(r, row_idx)
                 col_char_idx == utf16_cu_to_char(r, col_code_idx)
                 row_byte_idx == line_to_byte(r, row_idx)
                 col_byte_idx == char_to_byte(r, col_char_idx)
                 row_code_idx == char_to_utf16_cu(r, row_char_idx)
             IN  IF ~fits_u32(col_byte_idx) THEN Err
                 ELSE IF ~fits_u32(row_char_idx + col_char_idx) THEN Err
                 ELSE IF ~fits_u32(row_byte_idx + col_byte_idx) THEN Err
                 ELSE IF ~fits_u32(row_code_idx + col_code_idx) THEN Err
                 ELSE Ok([char |-> row_char_idx + col_char_idx,
                          byte |-> row_byte_idx + col_byte_idx,
                          code |-> row_code_idx + col_code_idx,
                          point |-> Point(position.line, col_byte_idx)])

\* The range build_edit converts: the event's own, or for an event without one the
\* positions of byte 0 and of byte text_end_byte_idx.  Empty when a conversion panics.
build_edit_range(r, change) ==
    IF change.range # <<>> THEN change.range
    ELSE LET text_end_byte_idx == Utf8Len(change.text)
             start == byte_to_lsp_position(r, 0)
             end == byte_to_lsp_position(r, text_end_byte_idx)
         IN  IF start.tag = "Ok" /\ end.tag = "Ok"
             THEN <<[start |-> start.val, end |-> end.val]>>
             ELSE <<>>

\* RopeExt::build_edit
build_edit(r, change) ==
    LET text_end_byte_idx == Utf8Len(change.text)
        range == build_edit_range(r, change)
    IN  IF range = <<>> THEN Panic
        ELSE LET start == lsp_position_to_core(r, range[1].start)
             IN  IF start.tag # "Ok" THEN start
                 ELSE LET old_end == lsp_position_to_core(r, range[1].end)
                      IN  IF old_end.tag # "Ok" THEN old_end
                          ELSE LET new_end_byte == start.val.byte + text_end_byte_idx
                                   new_end_position == byte_to_tree_sitter_point(r, new_end_byte)
                               IN  IF new_end_position.tag # "Ok" THEN new_end_position
                                   ELSE IF ~fits_u32(new_end_byte) THEN Err
                                   ELSE Ok([start_byte |-> start.val.byte,
                                            old_end_byte |-> old_end.val.byte,
                                            new_end_byte |-> new_end_byte,
                                            start_position |-> start.val.point,
                                            old_end_position |-> old_end.val.point,
                                            new_end_position |-> new_end_position.val,
                                            start_char_idx |-> start.val.char,
                                            end_char_idx |-> old_end.val.char,
                                            text |-> change.text])

\* Rope::remove panics when the range is reversed or ends past the text.
remove_in_bounds(r, a, b) == a <= b /\ b <= len_chars(r)
remove(r, a, b) == SubSeq(r, 1, a) \o SubSeq(r, b + 1, Len(r))
insert(r, a, t) == SubSeq(r, 1, a) \o t \o SubSeq(r, a + 1, Len(r))

\* RopeExt::apply_edit: the text after the edit (the text as it is when remove panics).
apply_edit_panics(r, edit) == ~remove_in_bounds(r, edit.start_char_idx, edit.end_char_idx)
apply_edit(r, edit) ==
    IF apply_edit_panics(r, edit) THEN r
    ELSE LET removed == remove(r, edit.start_char_idx, edit.end_char_idx)
         IN  IF edit.text # <<>> THEN insert(removed, edit.start_char_idx, edit.text)
             ELSE removed

(***************************************************************************)
(* The position conversions as operations on a rope.                       *)
(***************************************************************************)
MaxChars == 3
MaxText == 2
\* TLC's integers end below u32::MAX; no text of the model comes near either.
U32Max == (2^30 - 1) + 2^30
\* A u32 scaled down, for the runs in which values must overflow it.
U32Scaled == 2

Texts(n) == UNION {[1..k -> Alphabet] : k \in 0..n}

NoWalker ==
    /\ chunks = <<>>
    /\ overflow_checks = FALSE
    /\ wasm32 = FALSE
    /\ cursor = 0
    /\ cursor_chunk = <<>>
    /\ iter = 0
    /\ pc = "none"
    /\ start_index = 0
    /\ end_index = <<>>
    /\ bytes_out = <<>>
    /\ steps = 0
    /\ served = FALSE
    /\ advanced = FALSE
    /\ backward = FALSE
    /\ seq_next = -1
    /\ acc = <<>>

InitRope(max) ==
    /\ text \in Texts(MaxChars)
    /\ u32_max = max
    /\ last = [op |-> "none"]
    /\ NoWalker

\* Arguments: byte offsets (usize) up to one past the text's length; lines up to one
\* past the lines the text has and columns up to one past its UTF-16 length (u32).
ByteArgs == 0..(rope_len_bytes(text) + 1)
LineArgs == 0..Min(len_lines(text) + 1, u32_max)
ColumnArgs == 0..Min(len_utf16_cu(text) + 1, u32_max)
PositionArgs == {Position(l, c) : l \in LineArgs, c \in ColumnArgs}

ByteToLspPosition(b) ==
    /\ last.op = "none"
    /\ last' = [op |-> "byte_to_lsp_position", byte |-> b,
                out |-> byte_to_lsp_position(text, b)]
    /\ UNCHANGED <<text, u32_max, rope_vars, walker_vars>>

ByteToTreeSitterPoint(b) ==
    /\ last.op = "none"
    /\ last' = [op |-> "byte_to_tree_sitter_point", byte |-> b,
                out |-> byte_to_tree_sitter_point(text, b)]
    /\ UNCHANGED <<text, u32_max, rope_vars, walker_vars>>

\* lsp_position_to_core on any position.
LspPositionToCore(p) ==
    /\ last.op = "none"
    /\ last' = [op |-> "lsp_position_to_core", position |-> p, from_byte |-> <<>>,
                out |-> lsp_position_to_core(text, p)]
    /\ UNCHANGED <<text, u32_max, rope_vars, walker_vars>>

\* lsp_position_to_core on the position byte_to_lsp_position has just returned.
RoundTrip ==
    /\ last.op = "byte_to_lsp_position"
    /\ last.out.tag = "Ok"
    /\ last' = [op |-> "lsp_position_to_core", position |-> last.out.val,
                from_byte |-> <<last.byte>>,
                out |-> lsp_position_to_core(text, last.out.val)]
    /\ UNCHANGED <<text, u32_max, rope_vars, walker_vars>>

\* Change events: without a range, or with one whose start is not after its end.
NotAfter(a, b) == a.line < b.line \/ (a.line = b.line /\ a.character <= b.character)
Ranges ==
    {<<>>} \cup {<<[start |-> pr[1], end |-> pr[2]]>> :
                    pr \in {q \in PositionArgs \X PositionArgs : NotAfter(q[1], q[2])}}
Changes == {[range |-> rg, text |-> t] : rg \in Ranges, t \in Texts(MaxText)}

BuildEdit(change) ==
    /\ last.op = "none"
    /\ last' = [op |-> "build_edit", change |-> change, out |-> build_edit(text, change)]
    /\ UNCHANGED <<text, u32_max, rope_vars, walker_vars>>

\* apply_edit with the edit build_edit has just returned.
ApplyEdit ==
    /\ last.op = "build_edit"
    /\ last.out.tag = "Ok"
    /\ Len(apply_edit(text, last.out.val)) <= MaxChars
    /\ text' = apply_edit(text, last.out.val)
    /\ last' = [op |-> "apply_edit", edit |-> last.out.val, before |-> text,
                out |-> IF apply_edit_panics(text, last.out.val) THEN Panic ELSE Ok(<<>>)]
    /\ UNCHANGED <<u32_max, rope_vars, walker_vars>>

\* The caller lets go of the result it holds.
Drop ==
    /\ last.op # "none"
    /\ last' = [op |-> "none"]
    /\ UNCHANGED <<text, u32_max, rope_vars, walker_vars>>

InitPosition == InitRope(U32Max)
Idle == last.op = "none"
NextPosition ==
    \/ Idle /\ \E b \in ByteArgs : ByteToLspPosition(b)
    \/ Idle /\ \E b \in ByteArgs : ByteToTreeSitterPoint(b)
    \/ Idle /\ \E p \in PositionArgs : LspPositionToCore(p)
    \/ RoundTrip
    \/ Idle /\ \E c \in Changes : BuildEdit(c)
    \/ ApplyEdit
    \/ Drop
SpecPosition == InitPosition /\ [][NextPosition]_vars

InitOverflow == InitRope(U32Scaled)
SpecOverflow == InitOverflow /\ [][NextPosition]_vars

(***************************************************************************)
(* What a read is meant to return, from the rope alone.                    *)
(***************************************************************************)
Panicked == pc \in {"panic_overflow", "panic_slice"}
Returned == pc = "idle" /\ served

\* The end of the chunk that holds byte k (len_bytes for k = len_bytes).
ChunkEndOf(k) ==
    IF k >= len_bytes THEN len_bytes
    ELSE LET i == CHOOSE j \in 1..Len(chunks) :
                      ChunkStart(chunks, j) <= k /\ k < ChunkStart(chunks, j) + Len(chunks[j])
         IN  ChunkStart(chunks, i) + Len(chunks[i])

\* The rope's bytes from offset a up to offset b.
RopeBytes(a, b) == SubSeq(Flatten(chunks), a + 1, b)

\* cursor_chunk is the chunk that holds start_index and cursor is where it starts.
Positioned ==
    /\ cursor >= 0
    /\ cursor <= start_index
    /\ start_index < cursor + Len(cursor_chunk)
    /\ cursor_chunk = RopeBytes(cursor, cursor + Len(cursor_chunk))
    /\ cursor + Len(cursor_chunk) = ChunkEndOf(start_index)

\* C5: a read at an offset below the one read before it returns, and returns what
\* a fresh walker returns there: the bytes from the offset to the end of its chunk.
C5_BackwardSeek ==
    backward =>
        /\ ~Panicked
        /\ Returned => bytes_out = RopeBytes(start_index, ChunkEndOf(start_index))

\* C6: reading from a walker made at offset 0, first at 0 and then always at the
\* previous offset plus the length returned, every read below the rope's length
\* returns a non-empty slice, the slices read so far are the rope's bytes up to the
\* next offset, at the rope's length they are the whole rope, and the read at the
\* rope's length returns the empty slice.
C6_Exhaustive ==
    seq_next >= 0 =>
        /\ ~Panicked
        /\ acc = RopeBytes(0, Len(acc))
        /\ pc = "idle" => seq_next = Len(acc)
        /\ Returned => (bytes_out = <<>>) = (start_index = len_bytes)
        /\ (pc = "idle" /\ seq_next = len_bytes) => acc = Flatten(chunks)

\* C6 happens: a rope of three chunks, the middle one empty, read to its end.
C6_Witness ==
    /\ Len(chunks) = 3
    /\ chunks[2] = <<>>
    /\ Len(chunks[1]) = 2
    /\ Len(chunks[3]) = 1
    /\ Returned
    /\ seq_next = len_bytes
    /\ start_index = len_bytes
    /\ bytes_out = <<>>
    /\ acc = Flatten(chunks)

\* C7: when a read is served the walker is positioned on the chunk that holds the
\* offset, except at the rope's length, where the read returns the empty slice
\* from every state of the walker.
C7_Positioned ==
    /\ (pc = "serve" /\ start_index # len_bytes) => Positioned
    /\ (pc # "idle" /\ start_index = len_bytes) => ~Panicked
    /\ (Returned /\ start_index = len_bytes) => bytes_out = <<>>

\* C8: a read at t with the end bound e, served from the chunk that holds t,
\* returns the rope's bytes from t up to e or the end of that chunk, whichever
\* comes first, and does not fail.
C8_BoundedRead ==
    (end_index # <<>> /\ pc \in {"idle", "panic_slice"} /\ Positioned) =>
        /\ ~Panicked
        /\ Returned =>
              bytes_out = RopeBytes(start_index, Min(end_index[1], ChunkEndOf(start_index)))

\* The moves of the chunk iterator one read may need: its positions, both ways.
StepBound == 2 * (Len(chunks) + 1)

\* C10: a read makes at most as many moves of the chunk iterator as the iterator
\* has positions in each direction, its arithmetic does not overflow, and the
\* cursor stays at or above 0.
C10_BoundedTraversal ==
    /\ pc # "panic_overflow"
    /\ cursor >= 0
    /\ steps <= StepBound

(***************************************************************************)
(* What the conversions are meant to return, from the text alone.          *)
(***************************************************************************)
OnCharBoundary(r, b) == \E c \in 0..Len(r) : char_to_byte(r, c) = b

\* The characters of line l, without its line break: from LineStart up to LineEnd.
LineStart(r, l) == line_to_char(r, l)
LineEnd(r, l) == IF l + 1 < len_lines(r) THEN line_to_char(r, l + 1) - 1 ELSE len_chars(r)

\* The characters c of line p.line that lie p.character UTF-16 code units into it.
CharsAt(r, p) ==
    {c \in LineStart(r, p.line)..LineEnd(r, p.line) :
        char_to_utf16_cu(r, c) - char_to_utf16_cu(r, LineStart(r, p.line)) = p.character}

ValidPosition(r, p) == p.line < len_lines(r) /\ CharsAt(r, p) # {}

\* The one location a valid position denotes, in the four encodings.
Location(r, p) ==
    LET c == CHOOSE x \in CharsAt(r, p) : TRUE
    IN  [char |-> c,
         byte |-> char_to_byte(r, c),
         code |-> char_to_utf16_cu(r, c),
         point |-> Point(p.line, char_to_byte(r, c) - char_to_byte(r, LineStart(r, p.line)))]

\* C1: a byte offset on a character boundary, turned into a protocol position by
\* byte_to_lsp_position and back by lsp_position_to_core, comes back as the byte
\* field of the result.
C1_RoundTrip ==
    (/\ last.op = "lsp_position_to_core"
     /\ last.from_byte # <<>>
     /\ OnCharBoundary(text, last.from_byte[1]))
        => (last.out.tag = "Ok" /\ last.out.val.byte = last.from_byte[1])

\* C2: for a valid protocol position lsp_position_to_core returns the character
\* index, byte offset, UTF-16 offset and point of the one location it denotes, and
\* the point is the one byte_to_tree_sitter_point gives for the byte offset.
C2_SameLocation ==
    (last.op = "lsp_position_to_core" /\ ValidPosition(text, last.position))
        => /\ last.out = Ok(Location(text, last.position))
           /\ byte_to_tree_sitter_point(text, last.out.val.byte) = Ok(last.out.val.point)

\* C3: for a change event without a range build_edit succeeds, and the edit replaces
\* the whole text: bytes 0 to len_bytes, characters 0 to len_chars, the new end at
\* the byte length of the replacement.
C3_FullReplacement ==
    (last.op = "build_edit" /\ last.change.range = <<>>)
        => /\ last.out.tag = "Ok"
           /\ last.out.val.start_byte = 0
           /\ last.out.val.old_end_byte = rope_len_bytes(text)
           /\ last.out.val.start_char_idx = 0
           /\ last.out.val.end_char_idx = len_chars(text)
           /\ last.out.val.new_end_byte = Utf8Len(last.change.text)

\* The event has a range of valid positions, and lsp_position_to_core returns the
\* locations they denote.
RangeConverted(r, change) ==
    /\ change.range # <<>>
    /\ ValidPosition(r, change.range[1].start)
    /\ ValidPosition(r, change.range[1].end)
    /\ lsp_position_to_core(r, change.range[1].start) = Ok(Location(r, change.range[1].start))
    /\ lsp_position_to_core(r, change.range[1].end) = Ok(Location(r, change.range[1].end))

\* C4: build_edit succeeds, the new end byte is the start byte plus the byte length
\* of the replacement, and the new end point is the point of that byte in the text
\* as apply_edit leaves it.  Stated for the events whose range converts rightly.
C4_NewEnd ==
    (last.op = "build_edit" /\ RangeConverted(text, last.change))
        => /\ last.out.tag = "Ok"
           /\ last.out.val.new_end_byte =
                 Location(text, last.change.range[1].start).byte + Utf8Len(last.change.text)
           /\ Ok(last.out.val.new_end_position) =
                 byte_to_tree_sitter_point(apply_edit(text, last.out.val),
                                           last.out.val.new_end_byte)

\* C9: a conversion on arguments within the text that computes a line, column or
\* offset no u32 holds returns the error.
C9_OverflowIsError ==
    /\ (/\ last.op = "byte_to_lsp_position"
        /\ byte_to_line_in_bounds(text, last.byte)
        /\ \/ ~fits_u32(byte_to_line(text, last.byte))
           \/ ~fits_u32(char_to_utf16_cu(text, byte_to_char(text, last.byte))
                        - char_to_utf16_cu(text, line_to_char(text, byte_to_line(text, last.byte)))))
          => last.out.tag = "Err"
    /\ (/\ last.op = "byte_to_tree_sitter_point"
        /\ byte_to_line_in_bounds(text, last.byte)
        /\ \/ ~fits_u32(byte_to_line(text, last.byte))
           \/ ~fits_u32(last.byte - line_to_byte(text, byte_to_line(text, last.byte))))
          => last.out.tag = "Err"
    /\ (/\ last.op = "lsp_position_to_core"
        /\ ValidPosition(text, last.position)
        /\ \/ ~fits_u32(Location(text, last.position).char)
           \/ ~fits_u32(Location(text, last.position).byte)
           \/ ~fits_u32(Location(text, last.position).code)
           \/ ~fits_u32(Location(text, last.position).point.column))
          => last.out.tag = "Err"

====
